---- MODULE Spec2Model ----
(***************************************************************************)
(* Model of the DNS-TXT command service of src/index.js: the handler table *)
(* and the generative gateway callAI are translated from the source (its   *)
(* first, complete copy, lines 1-178); the dispatcher, the rate limiter    *)
(* and the use of the response cache are not in the source and are         *)
(* modelled from sections 4.4, 4.5 and 4.7 of the specification.           *)
(* Texts are TLA+ strings, times are milliseconds.                         *)
(***************************************************************************)
EXTENDS Integers, Sequences, FiniteSets, TLC

VARIABLES now, cache, rateLimitMap, stats, slots, inq, out, prev,
          received, answered, rateLimited, burst, budget

vars == <<now, cache, rateLimitMap, stats, slots, inq, out, prev,
          received, answered, rateLimited, burst, budget>>

(***************************************************************************)
(* CONFIG, src/index.js lines 8-14.  Each value is preceded by the values a *)
(* slip would give it (a lifetime of a minute, or a minute too long; a     *)
(* bound or a maximum off by one), against which the properties are        *)
(* tested.                                                                 *)
(***************************************************************************)
CACHE_TTL_Minute == 3600 \div 60
CACHE_TTL_Late == 3600 + 60
CACHE_TTL == 3600
MAX_RESPONSE_LENGTH_OffByOne == 255 + 1
MAX_RESPONSE_LENGTH == 255
RATE_LIMIT_WINDOW == 60000
RATE_LIMIT_MAX_OffByOne == 100 - 1
RATE_LIMIT_MAX == 100

(***************************************************************************)
(* Bounds of the model.                                                    *)
(***************************************************************************)
MaxQueries == 2
MaxInflight == 2
BurstLen == 100

RECURSIVE Rep(_, _)
Rep(s, n) == IF n = 0 THEN "" ELSE s \o Rep(s, n - 1)

Clients == {"c1", "c2"}
BurstClient == "c1"
BurstQuery == "help"

\* The instants at which the clock is observed: the boundaries of the
\* rate-limit window and of the cache lifetime of an entry stored at 0.
TimePoints == {0, 59999, 60000, 3599999, 3600000}

LongCalcQuery == "calc." \o Rep("1234567+.", 27) \o "12345"

Queries == {"help", "stats", "calc.2.+.2", LongCalcQuery, "unit.5.cm.to",
            "fact.cats", "foo.bar"}

\* The datagrams the environment sends: the first client asks anything, the
\* second one repeats one query.
Inbound == ({BurstClient} \X Queries) \cup ({"c2"} \X {BurstQuery})

\* What the backend may answer: nothing, a text of exactly the TXT bound,
\* a text beyond it.
Text255 == Rep("abcde", 51)
Text300 == Rep("abcdefghij", 30)
BackendTexts == {"", Text255, Text300}

(***************************************************************************)
(* String operations of JavaScript used by the handlers.                   *)
(***************************************************************************)
\* The least element of a non-empty set of positions.
least(S) == CHOOSE i \in S : \A j \in S : i <= j

\* The first position at or after i where p occurs in s, 0 when none.
indexOf(s, p, i) ==
    LET hits == {k \in i..(Len(s) - Len(p) + 1) : SubSeq(s, k, k + Len(p) - 1) = p}
    IN  IF hits = {} THEN 0 ELSE least(hits)

\* query.replace(/<prefix>/i, ''): the first occurrence is removed (the
\* names of the model are lower case).
replace(s, p) ==
    LET i == indexOf(s, p, 1)
    IN  IF i = 0 THEN s
        ELSE SubSeq(s, 1, i - 1) \o SubSeq(s, i + Len(p), Len(s))

RECURSIVE splitFrom(_, _)
splitFrom(s, start) ==
    LET d == indexOf(s, ".", start)
    IN  IF d = 0 THEN <<SubSeq(s, start, Len(s))>>
        ELSE <<SubSeq(s, start, d - 1)>> \o splitFrom(s, d + 1)

split(s) == splitFrom(s, 1)

RECURSIVE join(_, _)
join(parts, sep) ==
    IF Len(parts) = 0 THEN ""
    ELSE IF Len(parts) = 1 THEN parts[1]
    ELSE parts[1] \o sep \o join(Tail(parts), sep)

\* A destructured element that is missing is undefined and prints so.
nth(parts, i) == IF i <= Len(parts) THEN parts[i] ELSE "undefined"

rest(parts, n) == IF Len(parts) <= n THEN <<>> ELSE SubSeq(parts, n + 1, Len(parts))

substring(s, from, to) == SubSeq(s, from + 1, IF to > Len(s) THEN Len(s) ELSE to)

contains(s, p) == indexOf(s, p, 1) # 0

(***************************************************************************)
(* The expression evaluator (mathjs) is an external collaborator: a table  *)
(* of the expressions the model's queries lead to.                         *)
(***************************************************************************)
LongExpression == Rep("1234567+ ", 27) \o "12345"

evaluate(expression) ==
    CASE expression = "2 + 2" -> [ok |-> TRUE, text |-> "4"]
      [] expression = LongExpression -> [ok |-> TRUE, text |-> "33345654"]
      [] OTHER -> [ok |-> FALSE, text |-> "Unexpected end of expression"]

(***************************************************************************)
(* handlers, src/index.js lines 38-153.                                    *)
(***************************************************************************)
handlers_calc(query) ==
    LET expression == join(split(replace(query, "calc.")), " ")
        result == evaluate(expression)
    IN  IF result.ok
        THEN [answer |-> expression \o " = " \o result.text,
              cached |-> FALSE, handler |-> "calc"]
        ELSE [answer |-> "Math error: " \o result.text,
              cached |-> FALSE, handler |-> "calc"]

handlers_unit(query) ==
    LET input == join(split(replace(query, "unit.")), " ")
        result == evaluate(input)
    IN  IF result.ok
        THEN [answer |-> input \o " = " \o result.text,
              cached |-> FALSE, handler |-> "unit"]
        ELSE [answer |-> "Conversion error: " \o result.text,
              cached |-> FALSE, handler |-> "unit"]

handlers_stats(st) ==
    [answer |-> "Queries:" \o ToString(st.totalQueries)
                \o " Cache:" \o ToString(st.cacheHits) \o "/"
                \o ToString(st.totalQueries)
                \o " Errors:" \o ToString(st.errors),
     cached |-> FALSE, handler |-> "stats"]

\* A help text that leaves out keys of the table (the text of the later
\* copy of the file, lines 279-282).
handlers_help_Short ==
    [answer |-> "Commands: calc math translate code ip weather fact define stats help",
     cached |-> FALSE, handler |-> "help"]

handlers_help ==
    [answer |-> "Commands: calc translate code timezone convert spell onthisday unit acronym tip weather fact define stats help",
     cached |-> FALSE, handler |-> "help"]

\* The remote-backed handlers: the prompt and the category each hands to
\* callAI.
handlers_translate(query) ==
    LET parts == split(replace(query, "translate."))
        text == join(rest(parts, 2), " ")
    IN  [prompt |-> "Translate \"" \o text \o "\" from " \o nth(parts, 1)
                    \o " to " \o nth(parts, 2)
                    \o ". Reply with ONLY the translation, no explanations.",
         category |-> "translation"]

handlers_code(query) ==
    [prompt |-> "Provide a one-line code snippet for: "
                \o join(split(replace(query, "code.")), " ")
                \o ". Format as: language: code",
     category |-> "code"]

handlers_timezone(query) ==
    [prompt |-> "What is the current timezone for "
                \o join(split(replace(query, "timezone.")), " ")
                \o "? Reply with timezone name and UTC offset only (e.g., \"EST UTC-5\").",
     category |-> "timezone"]

handlers_convert(query) ==
    LET parts == split(replace(query, "convert."))
    IN  [prompt |-> "Convert " \o nth(parts, 1) \o " " \o nth(parts, 2)
                    \o " to " \o nth(parts, 3)
                    \o ". Reply with just the converted amount and currency (e.g., \"100 USD = 85 EUR\").",
         category |-> "conversion"]

handlers_spell(query) ==
    [prompt |-> "Is \"" \o join(split(replace(query, "spell.")), " ")
                \o "\" spelled correctly? If not, provide the correct spelling. Reply in format: \"Correct\" or \"Incorrect: [correct spelling]\".",
     category |-> "spell"]

handlers_onthisday(query) ==
    [prompt |-> "What significant event happened on "
                \o join(split(replace(query, "onthisday.")), " ")
                \o "? Reply with one brief historical fact.",
     category |-> "history"]

handlers_acronym(query) ==
    [prompt |-> "What does the acronym \""
                \o join(split(replace(query, "acronym.")), " ")
                \o "\" stand for? Provide the most common meaning in one sentence.",
     category |-> "acronym"]

handlers_tip(query) ==
    [prompt |-> "Give one practical tip about "
                \o join(split(replace(query, "tip.")), " ")
                \o " in one sentence.",
     category |-> "tip"]

handlers_weather(query) ==
    [prompt |-> "Describe the typical weather in "
                \o join(split(replace(query, "weather.")), " ")
                \o " in one sentence.",
     category |-> "weather"]

handlers_fact(query) ==
    [prompt |-> "Share one interesting fact about "
                \o join(split(replace(query, "fact.")), " ")
                \o " in one sentence.",
     category |-> "fact"]

handlers_define(query) ==
    [prompt |-> "Define \"" \o join(split(replace(query, "define.")), " ")
                \o "\" in one concise sentence.",
     category |-> "definition"]

\* The keys of the handler table, and its two capability shapes.
SyncHandlers == {"calc", "unit", "stats", "help"}
RemoteHandlers == {"translate", "code", "timezone", "convert", "spell",
                   "onthisday", "acronym", "tip", "weather", "fact", "define"}
HandlerNames == SyncHandlers \cup RemoteHandlers

Categories == {"translation", "code", "timezone", "conversion", "spell",
               "history", "acronym", "tip", "weather", "fact", "definition"}

remote(command, query) ==
    CASE command = "translate" -> handlers_translate(query)
      [] command = "code" -> handlers_code(query)
      [] command = "timezone" -> handlers_timezone(query)
      [] command = "convert" -> handlers_convert(query)
      [] command = "spell" -> handlers_spell(query)
      [] command = "onthisday" -> handlers_onthisday(query)
      [] command = "acronym" -> handlers_acronym(query)
      [] command = "tip" -> handlers_tip(query)
      [] command = "weather" -> handlers_weather(query)
      [] command = "fact" -> handlers_fact(query)
      [] OTHER -> handlers_define(query)

(***************************************************************************)
(* callAI, src/index.js lines 155-178, from the point where the backend    *)
(* call settles.  backend.ok says whether generateContent resolved, and    *)
(* backend.text is result.text.  answer is declared const (line 165), so   *)
(* the assignment of line 167 throws a TypeError inside the try: the catch *)
(* of line 173 counts it as an error and throws it on.                     *)
(***************************************************************************)
callAI(st, backend, category) ==
    IF backend.ok
    THEN LET answer == IF backend.text = "" THEN "No response generated."
                       ELSE backend.text
         IN  IF Len(answer) > MAX_RESPONSE_LENGTH
             THEN [threw |-> TRUE, cause |-> "TypeError",
                   result |-> [answer |-> "", cached |-> FALSE, handler |-> "ai"],
                   stats |-> [st EXCEPT !.errors = @ + 1]]
             ELSE [threw |-> FALSE, cause |-> "none",
                   result |-> [answer |-> answer, cached |-> FALSE, handler |-> "ai"],
                   stats |-> [st EXCEPT !.byCategory[category] = @ + 1]]
    ELSE [threw |-> TRUE, cause |-> "backend",
          result |-> [answer |-> "", cached |-> FALSE, handler |-> "ai"],
          stats |-> [st EXCEPT !.errors = @ + 1]]

(***************************************************************************)
(* State.  cache is the NodeCache of line 24 (key -> stored Answer and the *)
(* time it was set), rateLimitMap the Map of line 25, stats the counters   *)
(* of lines 26-32.  slots holds the queries suspended on the backend call. *)
(* inq and out are the datagram taken and the Answer handed to the DNS     *)
(* encoder by the last step; prev remembers, per key, the last Answer      *)
(* given; received, answered and rateLimited count events.  burst and      *)
(* budget are the environment: an opening burst of one client's identical  *)
(* queries, then budget further queries.                                   *)
(***************************************************************************)
Slots == 1..MaxInflight

NoAnswer == [answer |-> "", cached |-> FALSE, handler |-> "none"]
NoEntry == [value |-> NoAnswer, t |-> -1]
NoRecord == [windowStart |-> -1, count |-> 0]
NoPrior ==
    [text |-> "", cached |-> FALSE, at |-> -1, stored |-> FALSE,
     cause |-> "none"]
NoQuery == [seq |-> 0, client |-> "", query |-> ""]
NoBackend == [ok |-> FALSE, text |-> ""]

\* stats, src/index.js lines 26-32; a category that is absent counts 0
\* (line 170).
stats_Initial ==
    [totalQueries |-> 0, cacheHits |-> 0, cacheMisses |-> 0, errors |-> 0,
     byCategory |-> [g \in Categories |-> 0]]

IdleSlot ==
    [pc |-> "idle", seq |-> 0, client |-> "", query |-> "", recvAt |-> -1,
     entryAt |-> -1, prior |-> NoPrior, category |-> "", prompt |-> "",
     backend |-> NoBackend, threw |-> FALSE, cause |-> "none",
     result |-> NoAnswer, before |-> stats_Initial]

NoOut ==
    [seq |-> 0, client |-> "", query |-> "", recvAt |-> -1, entryAt |-> -1,
     kind |-> "none", cause |-> "none", answer |-> NoAnswer, prior |-> NoPrior,
     errDelta |-> 0]

RateLimitAnswer ==
    [answer |-> "Rate limit exceeded. Please try again later.",
     cached |-> FALSE, handler |-> "ratelimit"]

UnavailableAnswer ==
    [answer |-> "Service temporarily unavailable. Please try again later.",
     cached |-> FALSE, handler |-> "error"]

Init ==
    /\ now = 0
    /\ cache = [k \in Queries |-> NoEntry]
    /\ rateLimitMap = [c \in Clients |-> NoRecord]
    /\ stats = stats_Initial
    /\ slots = [s \in Slots |-> IdleSlot]
    /\ inq = NoQuery
    /\ out = NoOut
    /\ prev = [k \in Queries |-> NoPrior]
    /\ received = 0
    /\ answered = 0
    /\ rateLimited = 0
    /\ burst \in {0, BurstLen}
    /\ budget = MaxQueries

(***************************************************************************)
(* The components the dispatcher wires together (specification 4.1, 4.4,   *)
(* 4.5, 4.7).                                                              *)
(***************************************************************************)
\* 4.1: the command is the leading label of the query name.
commandOf(query) == nth(split(query), 1)

\* The command of each query of the model, parsed once.
commands == [q \in Queries |-> commandOf(q)]

\* 4.5: check(clientKey) at time t; rec is the client's record.
checkRateLimit(rec, t) ==
    IF rec = NoRecord \/ t - rec.windowStart >= RATE_LIMIT_WINDOW
    THEN [allow |-> TRUE, rec |-> [windowStart |-> t, count |-> 1]]
    ELSE [allow |-> rec.count + 1 <= RATE_LIMIT_MAX,
          rec |-> [rec EXCEPT !.count = @ + 1]]

\* 4.4: an entry set at e.t lives CACHE_TTL seconds.
cacheLive(e, t) == e # NoEntry /\ t < e.t + CACHE_TTL * 1000

\* 4.7 (7): the text handed back is cut to the TXT bound, with the marker.
truncate(text) ==
    IF Len(text) > MAX_RESPONSE_LENGTH
    THEN substring(text, 0, MAX_RESPONSE_LENGTH - 3) \o "..."
    ELSE text

shape(a) == [a EXCEPT !.answer = truncate(@)]

\* What calc and unit return for each query of the model, computed once
\* (they are pure functions of the query).
calcAnswers == [q \in Queries |-> handlers_calc(q)]
unitAnswers == [q \in Queries |-> handlers_unit(q)]

\* 4.2: the sync-local handlers; an unknown command falls back to help.
runSync(command, query, st) ==
    CASE command = "calc" -> calcAnswers[query]
      [] command = "unit" -> unitAnswers[query]
      [] command = "stats" -> handlers_stats(st)
      [] OTHER -> handlers_help

Quiet == \A s \in Slots : slots[s].pc # "resumed"

FreeSlot(s) ==
    /\ slots[s].pc = "idle"
    /\ \A r \in Slots : r < s => slots[r].pc # "idle"

EnvAllows(c, q) ==
    IF burst > 0 THEN c = BurstClient /\ q = BurstQuery ELSE budget > 0

EnvStep ==
    /\ burst' = IF burst > 0 THEN burst - 1 ELSE 0
    /\ budget' = IF burst > 0 THEN budget ELSE budget - 1

summary(a, stored, cause) ==
    [text |-> a.answer, cached |-> a.cached, at |-> now, stored |-> stored,
     cause |-> cause]

\* 4.7 (8): the Answer is handed to the encoder.
Emit(seq, c, q, recvAt, entryAt, kind, cause, a, prior, stored, errDelta) ==
    /\ out' = [seq |-> seq, client |-> c, query |-> q, recvAt |-> recvAt,
               entryAt |-> entryAt, kind |-> kind, cause |-> cause,
               answer |-> shape(a), prior |-> prior, errDelta |-> errDelta]
    /\ prev' = [prev EXCEPT ![q] = summary(shape(a), stored, cause)]
    /\ answered' = answered + 1

Taken(c, q) ==
    /\ Quiet
    /\ EnvAllows(c, q)
    /\ EnvStep
    /\ received' = received + 1
    /\ inq' = [seq |-> received + 1, client |-> c, query |-> q]
    /\ now' = now

\* 4.7 (1)-(2): the query is counted and the client is over its budget.
RecvRateLimited(c, q) ==
    LET rl == checkRateLimit(rateLimitMap[c], now)
    IN  /\ Taken(c, q)
        /\ ~rl.allow
        /\ rateLimitMap' = [rateLimitMap EXCEPT ![c] = rl.rec]
        /\ stats' = [stats EXCEPT !.totalQueries = @ + 1]
        /\ rateLimited' = rateLimited + 1
        /\ Emit(received + 1, c, q, now, cache[q].t, "ratelimited", "none",
                RateLimitAnswer, prev[q], FALSE, 0)
        /\ UNCHANGED <<cache, slots>>

\* The hit path with its cacheHits++ forgotten.
RecvHit_Uncounted(c, q) ==
    LET rl == checkRateLimit(rateLimitMap[c], now)
    IN  /\ Taken(c, q)
        /\ rl.allow
        /\ cacheLive(cache[q], now)
        /\ rateLimitMap' = [rateLimitMap EXCEPT ![c] = rl.rec]
        /\ stats' = [stats EXCEPT !.totalQueries = @ + 1]
        /\ Emit(received + 1, c, q, now, cache[q].t, "hit", "none",
                [cache[q].value EXCEPT !.cached = TRUE], prev[q], FALSE, 0)
        /\ UNCHANGED <<cache, slots, rateLimited>>

\* 4.7 (1)-(4), (7)-(8): a live entry answers the query.
RecvHit(c, q) ==
    LET rl == checkRateLimit(rateLimitMap[c], now)
    IN  /\ Taken(c, q)
        /\ rl.allow
        /\ cacheLive(cache[q], now)
        /\ rateLimitMap' = [rateLimitMap EXCEPT ![c] = rl.rec]
        /\ stats' = [stats EXCEPT !.totalQueries = @ + 1, !.cacheHits = @ + 1]
        /\ Emit(received + 1, c, q, now, cache[q].t, "hit", "none",
                [cache[q].value EXCEPT !.cached = TRUE], prev[q], FALSE, 0)
        /\ UNCHANGED <<cache, slots, rateLimited>>

\* 4.7 (1)-(8) for a sync-local handler or an unknown command.
RecvSync(c, q) ==
    LET rl == checkRateLimit(rateLimitMap[c], now)
        st == [stats EXCEPT !.totalQueries = @ + 1, !.cacheMisses = @ + 1]
        a == runSync(commands[q], q, st)
    IN  /\ Taken(c, q)
        /\ rl.allow
        /\ ~cacheLive(cache[q], now)
        /\ commands[q] \notin RemoteHandlers
        /\ rateLimitMap' = [rateLimitMap EXCEPT ![c] = rl.rec]
        /\ stats' = st
        /\ cache' = [cache EXCEPT ![q] = [value |-> a, t |-> now]]
        /\ Emit(received + 1, c, q, now, cache[q].t,
                IF commands[q] \in HandlerNames THEN "sync" ELSE "unknown",
                "none", a, prev[q], TRUE, 0)
        /\ UNCHANGED <<slots, rateLimited>>

\* 4.7 (1)-(5) for a remote-backed handler: the prompt is built, the
\* backend call is issued and the query suspends on it.
RecvRemote(c, q) ==
    LET rl == checkRateLimit(rateLimitMap[c], now)
        h == remote(commands[q], q)
    IN  /\ Taken(c, q)
        /\ rl.allow
        /\ ~cacheLive(cache[q], now)
        /\ commands[q] \in RemoteHandlers
        /\ rateLimitMap' = [rateLimitMap EXCEPT ![c] = rl.rec]
        /\ stats' = [stats EXCEPT !.totalQueries = @ + 1, !.cacheMisses = @ + 1]
        /\ cache' = [cache EXCEPT ![q] = NoEntry]
        /\ \E s \in Slots :
              /\ FreeSlot(s)
              /\ slots' = [slots EXCEPT ![s] =
                    [IdleSlot EXCEPT !.pc = "awaiting", !.seq = received + 1,
                                     !.client = c, !.query = q, !.recvAt = now,
                                     !.entryAt = cache[q].t, !.prior = prev[q],
                                     !.category = h.category,
                                     !.prompt = h.prompt]]
        /\ out' = NoOut
        /\ UNCHANGED <<prev, answered, rateLimited>>

Receive(c, q) ==
    \/ RecvRateLimited(c, q)
    \/ RecvHit(c, q)
    \/ RecvSync(c, q)
    \/ RecvRemote(c, q)

\* The backend call of slot s settles and callAI runs to its return or
\* throw.
Settle(s, backend) ==
    LET r == callAI(stats, backend, slots[s].category)
    IN  /\ Quiet
        /\ burst = 0
        /\ slots[s].pc = "awaiting"
        /\ stats' = r.stats
        /\ slots' = [slots EXCEPT ![s] =
              [@ EXCEPT !.pc = "resumed", !.backend = backend,
                        !.threw = r.threw, !.cause = r.cause,
                        !.result = r.result, !.before = stats]]
        /\ inq' = NoQuery
        /\ out' = NoOut
        /\ UNCHANGED <<now, cache, rateLimitMap, prev, received, answered,
                       rateLimited, burst, budget>>

BackendReturn(s) == \E t \in BackendTexts : Settle(s, [ok |-> TRUE, text |-> t])

BackendFail(s) == Settle(s, NoBackend)

\* 4.7 (6)-(8) on success: the Answer is stored and handed back.
ResumeReturned(s) ==
    /\ slots[s].pc = "resumed"
    /\ ~slots[s].threw
    /\ cache' = [cache EXCEPT ![slots[s].query] =
                    [value |-> slots[s].result, t |-> now]]
    /\ Emit(slots[s].seq, slots[s].client, slots[s].query, slots[s].recvAt,
            slots[s].entryAt, "ai", "none", slots[s].result, slots[s].prior,
            TRUE, stats.errors - slots[s].before.errors)
    /\ slots' = [slots EXCEPT ![s] = IdleSlot]
    /\ inq' = NoQuery
    /\ UNCHANGED <<now, rateLimitMap, stats, received, rateLimited, burst,
                   budget>>

\* The failure path with the exception escaping: no Answer is handed back.
ResumeThrown_Escapes(s) ==
    /\ slots[s].pc = "resumed"
    /\ slots[s].threw
    /\ stats' = [stats EXCEPT !.errors = @ + 1]
    /\ slots' = [slots EXCEPT ![s] = IdleSlot]
    /\ inq' = NoQuery
    /\ out' = NoOut
    /\ UNCHANGED <<now, cache, rateLimitMap, prev, received, answered,
                   rateLimited, burst, budget>>

\* 4.7 (6)-(8) on failure: the error is counted and the fallback Answer is
\* handed back; nothing is stored.
ResumeThrown(s) ==
    /\ slots[s].pc = "resumed"
    /\ slots[s].threw
    /\ stats' = [stats EXCEPT !.errors = @ + 1]
    /\ Emit(slots[s].seq, slots[s].client, slots[s].query, slots[s].recvAt,
            slots[s].entryAt, "unavailable", slots[s].cause, UnavailableAnswer,
            slots[s].prior, FALSE, stats.errors + 1 - slots[s].before.errors)
    /\ slots' = [slots EXCEPT ![s] = IdleSlot]
    /\ inq' = NoQuery
    /\ UNCHANGED <<now, cache, rateLimitMap, received, rateLimited, burst,
                   budget>>

\* Date.now() moves on between two events.  Once the environment has no
\* query left to send nothing reads the clock any more, and it stays.
Tick ==
    /\ Quiet
    /\ burst = 0
    /\ budget > 0
    /\ \E t \in TimePoints : t > now /\ now' = t
    /\ inq' = NoQuery
    /\ out' = NoOut
    /\ UNCHANGED <<cache, rateLimitMap, stats, slots, prev, received, answered,
                   rateLimited, burst, budget>>

Next ==
    \/ \E d \in Inbound : Receive(d[1], d[2])
    \/ \E s \in Slots : BackendReturn(s)
    \/ \E s \in Slots : BackendFail(s)
    \/ \E s \in Slots : ResumeReturned(s)
    \/ \E s \in Slots : ResumeThrown(s)
    \/ Tick

Spec == Init /\ [][Next]_vars

\* The backend call eventually returns or fails, and a continuation that
\* is ready runs (the event loop drains its queue).
FairSpec ==
    /\ Spec
    /\ \A s \in Slots : WF_vars(BackendReturn(s) \/ BackendFail(s))
    /\ \A s \in Slots : WF_vars(ResumeReturned(s) \/ ResumeThrown(s))

(***************************************************************************)
(* Properties.                                                             *)
(***************************************************************************)
Busy == {s \in Slots : slots[s].pc # "idle"}

\* C1: every Answer handed back for encoding has text of at most 255 bytes,
\* whatever the handler or the backend produced.
C1_AnswerWithinTxtBound ==
    out # NoOut => Len(out.answer.answer) <= 255

\* A stored calc Answer longer than the bound is served from the cache, cut
\* to the bound.
C1_Witness ==
    /\ out.kind = "hit"
    /\ out.query = LongCalcQuery
    /\ Len(cache[LongCalcQuery].value.answer) > 255
    /\ Len(out.answer.answer) = 255

\* C2: every query received is answered exactly once (each query is either
\* answered or still suspended on the backend, an Answer handed back is for
\* the query just received or for a suspended one, which it completes), and
\* every suspended query is eventually answered.
C2_EveryQueryAnswered ==
    /\ [](received = answered + Cardinality(Busy))
    /\ [][answered' # answered =>
            /\ answered' = answered + 1
            /\ out' # NoOut
            /\ \/ received' = received + 1 /\ out'.seq = received'
               \/ \E s \in Slots : /\ slots[s].pc # "idle"
                                   /\ slots[s].seq = out'.seq
                                   /\ slots'[s].pc = "idle"]_vars
    /\ \A s \in Slots : (slots[s].pc # "idle") ~> (slots[s].pc = "idle")

\* A query whose backend call failed has been answered.
C2_Witness ==
    /\ out.kind = "unavailable"
    /\ out.cause = "backend"
    /\ received = answered

\* C3: with a maximum of 100 and a window of 60000 ms, a request of a client
\* whose record is absent or whose window has elapsed is allowed and sets
\* the record to (now, 1); inside the window the request is allowed while
\* fewer than 100 were counted and gets the fixed rate-limit Answer
\* otherwise; no other client's record changes.  So none of the first 100
\* requests is rejected, the 101st of one client inside the window is, and
\* after the window the client is allowed again.
C3_RateLimitWindow ==
    /\ [](/\ received <= 100 => rateLimited = 0
          /\ (inq.seq = 101 /\ inq.client = BurstClient) =>
                IF now < 60000
                THEN out.kind = "ratelimited" /\ out.answer = RateLimitAnswer
                ELSE /\ out.kind # "ratelimited"
                     /\ rateLimitMap[BurstClient] = [windowStart |-> now, count |-> 1])
    /\ [][received' # received =>
            \E c \in Clients :
               LET r == rateLimitMap[c]
               IN  /\ inq'.client = c
                   /\ \A d \in Clients \ {c} : rateLimitMap'[d] = rateLimitMap[d]
                   /\ IF r = NoRecord \/ now - r.windowStart >= 60000
                      THEN /\ rateLimitMap'[c] = [windowStart |-> now, count |-> 1]
                           /\ rateLimited' = rateLimited
                           /\ out'.kind # "ratelimited"
                      ELSE /\ rateLimitMap'[c].windowStart = r.windowStart
                           /\ IF r.count < 100
                              THEN /\ rateLimited' = rateLimited
                                   /\ out'.kind # "ratelimited"
                              ELSE /\ rateLimited' = rateLimited + 1
                                   /\ out'.client = c
                                   /\ out'.answer = RateLimitAnswer]_vars

\* The client was rejected inside its window and is allowed again at the
\* instant the window has elapsed, with a fresh record.
C3_Witness ==
    /\ rateLimited = 1
    /\ inq.client = BurstClient
    /\ now = 60000
    /\ out.kind # "ratelimited"
    /\ out # NoOut
    /\ rateLimitMap[BurstClient] = [windowStart |-> 60000, count |-> 1]

C5_CacheExpiry ==
    /\ [](out # NoOut =>
             (out.answer.cached =>
                 (out.entryAt >= 0 /\ out.recvAt < out.entryAt + 3600000)))
    /\ [][(received' # received /\ rateLimited' = rateLimited) =>
            LET q == inq'.query
                e == cache[q]
            IN  IF e # NoEntry /\ now < e.t + 3600000
                THEN /\ stats'.cacheHits = stats.cacheHits + 1
                     /\ stats'.cacheMisses = stats.cacheMisses
                     /\ cache'[q] = e
                     /\ out'.answer.cached
                     /\ out'.answer.answer = truncate(e.value.answer)
                ELSE /\ stats'.cacheMisses = stats.cacheMisses + 1
                     /\ stats'.cacheHits = stats.cacheHits
                     /\ e # NoEntry => cache'[q] # e
                     /\ ~out'.answer.cached
                     /\ out' # NoOut => out'.kind \in {"sync", "unknown"}
                     /\ out' = NoOut => \E s \in Slots : /\ slots'[s].pc = "awaiting"
                                                         /\ slots'[s].seq = inq'.seq]_vars

\* An entry set at 0 is looked up at exactly 0 + 3600 s: the handler runs
\* again and the entry is replaced.
C5_Witness ==
    /\ out.kind = "sync"
    /\ out.entryAt = 0
    /\ out.recvAt = 3600000
    /\ ~out.answer.cached
    /\ cache[out.query].t = 3600000

\* C6: a query whose backend call failed has incremented errors by exactly
\* 1 in all, is answered with the fallback text, and leaves no cache entry
\* for its key.
C6_BackendFailureCountedOnce ==
    (out.kind = "unavailable" /\ out.cause = "backend") =>
       /\ out.errDelta = 1
       /\ out.answer = UnavailableAnswer
       /\ cache[out.query] = NoEntry

\* C7: when the backend returns a text longer than 255, callAI returns its
\* first 252 characters followed by "...", 255 in all, with cached=false and
\* handler 'ai'; a text of at most 255 is returned unchanged.
C7_LongTextCutTo255 ==
    \A s \in Slots :
       (slots[s].pc = "resumed" /\ slots[s].backend.ok /\ slots[s].backend.text # "") =>
          LET t == slots[s].backend.text
          IN  /\ ~slots[s].threw
              /\ slots[s].result =
                    [answer |-> IF Len(t) > 255 THEN SubSeq(t, 1, 252) \o "..." ELSE t,
                     cached |-> FALSE, handler |-> "ai"]
              /\ Len(slots[s].result.answer) <= 255

C9_HitsPlusMissesIsTotal ==
    /\ stats.totalQueries = received
    /\ Busy = {} => stats.cacheHits + stats.cacheMisses = stats.totalQueries

\* C9 as amended: totalQueries is the number of queries received; a query
\* rejected by the rate limiter increments neither cacheHits nor
\* cacheMisses and every other query exactly one of them, so that, when no
\* query is in flight, cacheHits + cacheMisses + the number of rate-limited
\* queries = totalQueries; no counter ever decreases.
C9_CountersAddUp ==
    /\ [](/\ stats.totalQueries = received
          /\ Busy = {} =>
                stats.cacheHits + stats.cacheMisses + rateLimited = stats.totalQueries)
    /\ [][/\ stats'.totalQueries >= stats.totalQueries
          /\ stats'.cacheHits >= stats.cacheHits
          /\ stats'.cacheMisses >= stats.cacheMisses
          /\ stats'.errors >= stats.errors
          /\ \A g \in Categories : stats'.byCategory[g] >= stats.byCategory[g]
          /\ received' # received =>
                /\ stats'.totalQueries = stats.totalQueries + 1
                /\ (stats'.cacheHits - stats.cacheHits)
                     + (stats'.cacheMisses - stats.cacheMisses)
                     = IF rateLimited' = rateLimited THEN 1 ELSE 0]_vars

\* A rate-limited query, a hit and a miss have been counted and nothing is
\* in flight.
C9_Witness ==
    /\ Busy = {}
    /\ rateLimited > 0
    /\ stats.cacheHits > 0
    /\ stats.cacheMisses > 0
    /\ stats.totalQueries = stats.cacheHits + stats.cacheMisses + rateLimited

\* C10: a call of callAI that returns has incremented byCategory[category]
\* by 1 and left errors alone, a call that throws has incremented errors by
\* 1 and left byCategory alone, and a call whose backend returned text
\* returns, whatever the length of the text.
C10_CallAICountsOneOutcome ==
    \A s \in Slots :
       slots[s].pc = "resumed" =>
          LET b == slots[s].before
              g == slots[s].category
          IN  /\ slots[s].backend.ok => ~slots[s].threw
              /\ IF slots[s].threw
                 THEN stats.errors = b.errors + 1 /\ stats.byCategory = b.byCategory
                 ELSE /\ stats.errors = b.errors
                      /\ stats.byCategory = [b.byCategory EXCEPT ![g] = @ + 1]

====
